---- MODULE Spec2Model ----
(***************************************************************************)
(* Model of the word-search ("osmismerka") engine of 8gen.py: direction    *)
(* selection, collision-checked random placement, greedy scheduling with   *)
(* reserved cells, and cell filling, as driven once by save_pdf.           *)
(***************************************************************************)
EXTENDS Integers, Sequences, FiniteSets, TLC

\* ---- bounds of the model ----
MaxN == 2          \* grid sides 1..MaxN are explored
MaxWords == 2      \* word lists of 0..MaxWords words are explored

\* range(1000) of greedy_place
TrialCap == 1000

\* the empty cell (Python None)
None == "None"

\* words handed to greedy_place: non-empty upper-case tokens; lengths run up
\* to MaxN + 1 so that some word is always longer than the grid side
VocabularySeq ==
    << <<"A">>, <<"A", "B">>, <<"B", "A">>,
       [i \in 1..(MaxN + 1) |-> IF i = 1 THEN "B" ELSE "A"] >>
Vocabulary == {VocabularySeq[i] : i \in 1..Len(VocabularySeq)}
\* word lists in the order read_words_file returns them (sorted); repeated
\* words are kept in, greedy_place itself accepts them
WordLists ==
    LET idx == UNION {[1..k -> 1..Len(VocabularySeq)] : k \in 0..MaxWords}
        sorted == {f \in idx : \A i, j \in DOMAIN f : i < j => f[i] <= f[j]}
    IN {[i \in DOMAIN f |-> VocabularySeq[f[i]]] : f \in sorted}

\* secret phrases (already normalised): prefixes of one fixed text, of the
\* lengths 0..MaxN and of one more than the largest grid's cell count
PhraseText == [i \in 1..(MaxN * MaxN + 1) |-> <<"X", "Y", "Z">>[((i - 1) % 3) + 1]]
Phrases ==
    {SubSeq(PhraseText, 1, k) : k \in (0..MaxN) \cup {MaxN * MaxN + 1}}

\* ---- ALPHABETS (each shortened to its first letters; "A_acute" is the
\* accented capital A that follows A in the Czech alphabet) ----
ALPHABETS ==
    [CZ |-> <<"A", "A_acute", "B">>,
     AZ |-> <<"A", "B">>]
AlphabetKeys == {"CZ", "AZ", "other"}
ALPHABETS_get(key) ==
    IF key \in DOMAIN ALPHABETS THEN ALPHABETS[key] ELSE ALPHABETS["CZ"]

\* unicodedata.normalize("NFD", c) with the combining marks dropped
remove_diacritics_char(c) ==
    IF c = "A_acute" THEN "A" ELSE c
remove_diacritics(s) == [i \in 1..Len(s) |-> remove_diacritics_char(s[i])]

\* 'A' <= ch <= 'Z', in alphabetical order
AZ == <<"A", "B", "C">>
AZSet == {AZ[i] : i \in 1..Len(AZ)}

\* ''.join(sorted(set(ch for ch in remove_diacritics(alphabet).upper()
\*                    if 'A' <= ch <= 'Z')))
letters_random(alphabet) ==
    LET stripped == remove_diacritics(alphabet)
        kept == {stripped[i] : i \in 1..Len(stripped)} \cap AZSet
    IN SelectSeq(AZ, LAMBDA c : c \in kept)

\* ---- Direction catalog ----
DIRECTIONS ==
    << <<1, 0, "E">>, <<0, 1, "S">>, <<1, 1, "SE">>, <<-1, 1, "SW">>,
       <<-1, 0, "W">>, <<0, -1, "N">>, <<-1, -1, "NW">>, <<1, -1, "NE">> >>

\* variant: the backward filter is applied to DIRECTIONS, losing the diagonal filter
pick_allowed_unfiltered(diag, back) ==
    LET forward == {"E", "S", "SE", "SW"}
        allowed0 == SelectSeq(DIRECTIONS, LAMBDA d : diag \/ d[1] = 0 \/ d[2] = 0)
    IN IF back THEN allowed0
       ELSE SelectSeq(DIRECTIONS, LAMBDA d : d[3] \in forward)

pick_allowed(diag, back) ==
    LET forward == {"E", "S", "SE", "SW"}
        allowed0 == SelectSeq(DIRECTIONS, LAMBDA d : diag \/ d[1] = 0 \/ d[2] = 0)
    IN IF back THEN allowed0
       ELSE SelectSeq(allowed0, LAMBDA d : d[3] \in forward)

\* ---- Grid helpers ----
\* a grid is a function row y -> column x -> character or None
len_grid(g) == Cardinality(DOMAIN g)
make_empty(k) == [y \in 0..(k - 1) |-> [x \in 0..(k - 1) |-> None]]

RECURSIVE can_place_from(_, _, _, _, _, _, _)
can_place_from(g, x, y, dx, dy, word, i) ==
    IF i >= Len(word) THEN TRUE
    ELSE LET ch == word[i + 1]
             cx == x + dx * i
             cy == y + dy * i
             k == len_grid(g)
         IN IF cx < 0 \/ cy < 0 \/ cx >= k \/ cy >= k THEN FALSE
            ELSE IF g[cy][cx] # None /\ g[cy][cx] # ch THEN FALSE
            ELSE can_place_from(g, x, y, dx, dy, word, i + 1)
\* variant: only the bounds are checked, an occupied cell never rejects
can_place_bounds_only(g, x, y, dx, dy, word) ==
    \A i \in 0..(Len(word) - 1) :
        /\ x + dx * i >= 0 /\ x + dx * i < len_grid(g)
        /\ y + dy * i >= 0 /\ y + dy * i < len_grid(g)

\* variant: any occupied cell rejects, also one that holds the word's letter
can_place_strict(g, x, y, dx, dy, word) ==
    \A i \in 0..(Len(word) - 1) :
        /\ x + dx * i >= 0 /\ x + dx * i < len_grid(g)
        /\ y + dy * i >= 0 /\ y + dy * i < len_grid(g)
        /\ g[y + dy * i][x + dx * i] = None

can_place(g, x, y, dx, dy, word) == can_place_from(g, x, y, dx, dy, word, 0)

RECURSIVE place_word_from(_, _, _, _, _, _, _)
place_word_from(g, x, y, dx, dy, word, i) ==
    IF i >= Len(word) THEN g
    ELSE place_word_from([g EXCEPT ![y + dy * i][x + dx * i] = word[i + 1]],
                         x, y, dx, dy, word, i + 1)
\* variant: row and column index swapped in the write
RECURSIVE place_word_transposed_from(_, _, _, _, _, _, _)
place_word_transposed_from(g, x, y, dx, dy, word, i) ==
    IF i >= Len(word) THEN g
    ELSE place_word_transposed_from(
             [g EXCEPT ![x + dx * i][y + dy * i] = word[i + 1]],
             x, y, dx, dy, word, i + 1)
place_word_transposed(g, x, y, dx, dy, word) ==
    place_word_transposed_from(g, x, y, dx, dy, word, 0)

place_word(g, x, y, dx, dy, word) == place_word_from(g, x, y, dx, dy, word, 0)

\* sum(1 for i in range(len(w)) if grid[y+dy*i][x+dx*i] is None)
new_cells_of(g, x, y, dx, dy, word) ==
    Cardinality({i \in 0..(Len(word) - 1) : g[y + dy * i][x + dx * i] = None})
\* sum(1 for row in grid for cell in row if cell is None)
empties_of(g) ==
    Cardinality({c \in (DOMAIN g) \X (DOMAIN g) : g[c[1]][c[2]] = None})

\* ---- Cell filler ----
\* the cell visited at position c (0-based) of the row-major scan
scan_cell(g, c) == <<c \div len_grid(g), c % len_grid(g)>>

\* fill_random: the double loop over y and x; draws[j] is the index that the
\* j-th call of random.choice picks in alphabet
RECURSIVE fill_random_from(_, _, _, _, _)
fill_random_from(g, alphabet, draws, c, used) ==
    IF c >= len_grid(g) * len_grid(g) THEN g
    ELSE LET y == scan_cell(g, c)[1]
             x == scan_cell(g, c)[2]
         IN IF g[y][x] = None
            THEN fill_random_from([g EXCEPT ![y][x] = alphabet[draws[used + 1]]],
                                  alphabet, draws, c + 1, used + 1)
            ELSE fill_random_from(g, alphabet, draws, c + 1, used)
\* variant: the scan stops one cell short of the end
RECURSIVE fill_random_short_from(_, _, _, _, _)
fill_random_short_from(g, alphabet, draws, c, used) ==
    IF c >= len_grid(g) * len_grid(g) - 1 THEN g
    ELSE LET y == scan_cell(g, c)[1]
             x == scan_cell(g, c)[2]
         IN IF g[y][x] = None
            THEN fill_random_short_from(
                     [g EXCEPT ![y][x] = alphabet[draws[used + 1]]],
                     alphabet, draws, c + 1, used + 1)
            ELSE fill_random_short_from(g, alphabet, draws, c + 1, used)
fill_random_short(g, alphabet, draws) ==
    fill_random_short_from(g, alphabet, draws, 0, 0)

fill_random(g, alphabet, draws) == fill_random_from(g, alphabet, draws, 0, 0)

\* empties=[(y,x) for y,row in enumerate(grid) for x,val in enumerate(row)
\*          if val is None]
RECURSIVE empties_from(_, _)
empties_from(g, c) ==
    IF c >= len_grid(g) * len_grid(g) THEN << >>
    ELSE IF g[scan_cell(g, c)[1]][scan_cell(g, c)[2]] = None
         THEN <<scan_cell(g, c)>> \o empties_from(g, c + 1)
         ELSE empties_from(g, c + 1)
empties_list(g) == empties_from(g, 0)

\* the loop of fill_with_tajenka over enumerate(empties); draws[j] is the index
\* picked by the j-th call of random.choice(letters_random)
RECURSIVE fill_tajenka_from(_, _, _, _, _, _)
fill_tajenka_from(g, letters, taj, draws, empties, i) ==
    IF i >= Len(empties) THEN g
    ELSE LET y == empties[i + 1][1]
             x == empties[i + 1][2]
             ch == IF i < Len(taj) THEN taj[i + 1]
                   ELSE letters[draws[i - Len(taj) + 1]]
         IN fill_tajenka_from([g EXCEPT ![y][x] = ch], letters, taj, draws,
                              empties, i + 1)
\* variant: the empty cells are enumerated column by column
RECURSIVE empties_colmajor_from(_, _)
empties_colmajor_from(g, c) ==
    IF c >= len_grid(g) * len_grid(g) THEN << >>
    ELSE IF g[scan_cell(g, c)[2]][scan_cell(g, c)[1]] = None
         THEN << <<scan_cell(g, c)[2], scan_cell(g, c)[1]>> >>
                  \o empties_colmajor_from(g, c + 1)
         ELSE empties_colmajor_from(g, c + 1)
fill_with_tajenka_colmajor(g, alphabet, taj, draws) ==
    fill_tajenka_from(g, letters_random(alphabet), taj, draws,
                      empties_colmajor_from(g, 0), 0)

fill_with_tajenka(g, alphabet, taj, draws) ==
    fill_tajenka_from(g, letters_random(alphabet), taj, draws, empties_list(g), 0)

\* ---- Scheduling order ----
\* list.sort(key=len, reverse=True): stable, longest first
RECURSIVE insert_by_len(_, _)
insert_by_len(sorted, w) ==
    IF sorted = << >> THEN <<w>>
    ELSE IF Len(sorted[Len(sorted)]) >= Len(w) THEN Append(sorted, w)
    ELSE Append(insert_by_len(SubSeq(sorted, 1, Len(sorted) - 1), w),
                sorted[Len(sorted)])
RECURSIVE sort_by_len_desc(_)
sort_by_len_desc(ws) ==
    IF ws = << >> THEN << >>
    ELSE insert_by_len(sort_by_len_desc(SubSeq(ws, 1, Len(ws) - 1)), ws[Len(ws)])

\* random.shuffle: any rearrangement
Perms(k) == {p \in [1..k -> 1..k] : \A i, j \in 1..k : p[i] = p[j] => i = j}
\* variant: every position draws from the list independently (here all draw
\* the same element), so a word can come up twice and another not at all
shuffle_with_repeats(ws, p) == [i \in 1..Len(ws) |-> ws[p[1]]]
shuffle(ws, p) == [i \in 1..Len(ws) |-> ws[p[i]]]

\* origin range of one trial (lines 121-122)
min_x_of(k, dx, w) == IF dx >= 0 THEN 0 ELSE Len(w) - 1
\* variant: off by one for a word running east
max_x_of_off(k, dx, w) == IF dx <= 0 THEN k - 1 ELSE k - Len(w) + 1
max_x_of(k, dx, w) == IF dx <= 0 THEN k - 1 ELSE k - Len(w)
min_y_of(k, dy, w) == IF dy >= 0 THEN 0 ELSE Len(w) - 1
max_y_of(k, dy, w) == IF dy <= 0 THEN k - 1 ELSE k - Len(w)

\* variant: off by one, a word one longer than the side is let through
too_long_off(w, k) == Len(w) > k + 1

\* variant: a word exactly as long as the side is skipped too
too_long_ge(w, k) == Len(w) >= k

\* if len(w)>n
too_long(w, k) == Len(w) > k

\* variant: range(100)
trials_left_100(t) == t < 100

\* for _ in range(1000): t iterations are done, is there another one
trials_left(t) == t < TrialCap

\* variant: the cells the word would newly occupy are not subtracted
reserve_rejects_no_new(g, x, y, dx, dy, w, tajenka_len) ==
    tajenka_len # 0 /\ empties_of(g) < tajenka_len

\* variant: the comparison is the wrong way round
reserve_rejects_swapped(g, x, y, dx, dy, w, tajenka_len) ==
    tajenka_len # 0
        /\ tajenka_len < (empties_of(g) - new_cells_of(g, x, y, dx, dy, w))

\* if tajenka_len and (empties-new_cells)<tajenka_len: continue
reserve_rejects(g, x, y, dx, dy, w, tajenka_len) ==
    tajenka_len # 0
        /\ (empties_of(g) - new_cells_of(g, x, y, dx, dy, w)) < tajenka_len

\* ---- State ----
VARIABLES
    pc,          \* "start", "place" (in the word loop), "returned", "done"
    words,       \* the caller's word list
    n,           \* grid side (size)
    diagonals, backwards,
    tajenka,     \* the secret phrase, << >> when there is none
    allowed,     \* pick_allowed(diagonals, backwards)
    words_pool,  \* the sorted-then-shuffled copy of words
    wi,          \* 1-based position of the for loop in words_pool
    trial,       \* trials already spent on words_pool[wi]
    grid,
    placed,      \* the returned list of placed words
    placements,  \* history: origin and direction of each accepted trial
    probe        \* a direct call of can_place: its arguments, the grid it
                 \* was given and the values it returned

vars == <<pc, words, n, diagonals, backwards, tajenka, allowed, words_pool,
          wi, trial, grid, placed, placements, probe>>

\* taj_len=len(tajenka) if tajenka else 0
taj_len == IF tajenka # << >> THEN Len(tajenka) ELSE 0

NoProbe ==
    [x |-> 0, y |-> 0, dx |-> 0, dy |-> 0, word |-> << >>,
     grid0 |-> << >>, ret |-> << >>]

Init ==
    /\ pc = "start"
    /\ words = << >>
    /\ n = 1
    /\ diagonals = TRUE
    /\ backwards = TRUE
    /\ tajenka = << >>
    /\ allowed = << >>
    /\ words_pool = << >>
    /\ wi = 1
    /\ trial = 0
    /\ grid = make_empty(1)
    /\ placed = << >>
    /\ placements = << >>
    /\ probe = NoProbe

\* save_pdf calls greedy_place: lines 114-116
GreedyStart ==
    /\ pc = "start"
    /\ \E ws \in WordLists, size \in 1..MaxN, dg \in BOOLEAN, bk \in BOOLEAN,
          tj \in Phrases :
        \E p \in Perms(Len(ws)) :
            /\ words' = ws
            /\ n' = size
            /\ diagonals' = dg
            /\ backwards' = bk
            /\ tajenka' = tj
            /\ grid' = make_empty(size)
            /\ allowed' = pick_allowed(dg, bk)
            /\ words_pool' = shuffle(sort_by_len_desc(ws), p)
    /\ placed' = << >>
    /\ placements' = << >>
    /\ wi' = 1
    /\ trial' = 0
    /\ pc' = "place"
    /\ UNCHANGED probe

InLoop == pc = "place" /\ wi <= Len(words_pool)
w_cur == words_pool[wi]

\* if len(w)>n: continue
SkipWord ==
    /\ InLoop
    /\ too_long(w_cur, n)
    /\ wi' = wi + 1
    /\ trial' = 0
    /\ UNCHANGED <<pc, words, n, diagonals, backwards, tajenka, allowed,
                   words_pool, grid, placed, placements, probe>>

CanTry == InLoop /\ ~too_long(w_cur, n) /\ trials_left(trial)

\* one trial whose can_place is true and that the reservation does not reject:
\* place_word, placed.append, break
TrialAccept ==
    /\ CanTry
    /\ \E d \in 1..Len(allowed) :
        LET dx == allowed[d][1]
            dy == allowed[d][2]
        IN \E x \in min_x_of(n, dx, w_cur)..max_x_of(n, dx, w_cur),
              y \in min_y_of(n, dy, w_cur)..max_y_of(n, dy, w_cur) :
            /\ can_place(grid, x, y, dx, dy, w_cur)
            /\ ~reserve_rejects(grid, x, y, dx, dy, w_cur, taj_len)
            /\ grid' = place_word(grid, x, y, dx, dy, w_cur)
            /\ placed' = Append(placed, w_cur)
            /\ placements' = Append(placements,
                    [w |-> w_cur, x |-> x, y |-> y, dx |-> dx, dy |-> dy])
    /\ wi' = wi + 1
    /\ trial' = 0
    /\ UNCHANGED <<pc, words, n, diagonals, backwards, tajenka, allowed,
                   words_pool, probe>>

\* one trial whose can_place is false: next iteration of range(1000)
TrialCollide ==
    /\ CanTry
    /\ \E d \in 1..Len(allowed) :
        LET dx == allowed[d][1]
            dy == allowed[d][2]
        IN \E x \in min_x_of(n, dx, w_cur)..max_x_of(n, dx, w_cur),
              y \in min_y_of(n, dy, w_cur)..max_y_of(n, dy, w_cur) :
            ~can_place(grid, x, y, dx, dy, w_cur)
    /\ trial' = trial + 1
    /\ UNCHANGED <<pc, words, n, diagonals, backwards, tajenka, allowed,
                   words_pool, wi, grid, placed, placements, probe>>

\* one trial whose can_place is true and that the reservation rejects: continue
TrialReserved ==
    /\ CanTry
    /\ \E d \in 1..Len(allowed) :
        LET dx == allowed[d][1]
            dy == allowed[d][2]
        IN \E x \in min_x_of(n, dx, w_cur)..max_x_of(n, dx, w_cur),
              y \in min_y_of(n, dy, w_cur)..max_y_of(n, dy, w_cur) :
            /\ can_place(grid, x, y, dx, dy, w_cur)
            /\ reserve_rejects(grid, x, y, dx, dy, w_cur, taj_len)
    /\ trial' = trial + 1
    /\ UNCHANGED <<pc, words, n, diagonals, backwards, tajenka, allowed,
                   words_pool, wi, grid, placed, placements, probe>>

\* range(1000) is exhausted without a break: on to the next word
GiveUp ==
    /\ InLoop
    /\ ~too_long(w_cur, n)
    /\ ~trials_left(trial)
    /\ wi' = wi + 1
    /\ trial' = 0
    /\ UNCHANGED <<pc, words, n, diagonals, backwards, tajenka, allowed,
                   words_pool, grid, placed, placements, probe>>

\* return grid,placed
GreedyReturn ==
    /\ pc = "place"
    /\ wi > Len(words_pool)
    /\ pc' = "returned"
    /\ UNCHANGED <<words, n, diagonals, backwards, tajenka, allowed,
                   words_pool, wi, trial, grid, placed, placements, probe>>

\* save_pdf lines 171-172: if taj_len: fill_with_tajenka(grid,letters,tajenka)
FillTajenka ==
    /\ pc = "returned"
    /\ taj_len # 0
    /\ \E key \in AlphabetKeys :
        LET letters == ALPHABETS_get(key)
            k == empties_of(grid) - Len(tajenka)
        IN \E draws \in [1..(IF k > 0 THEN k ELSE 0)
                             -> 1..Len(letters_random(letters))] :
            grid' = fill_with_tajenka(grid, letters, tajenka, draws)
    /\ pc' = "done"
    /\ UNCHANGED <<words, n, diagonals, backwards, tajenka, allowed,
                   words_pool, wi, trial, placed, placements, probe>>

\* save_pdf lines 173-175: fill_random(grid,letters_random)
FillRandom ==
    /\ pc = "returned"
    /\ taj_len = 0
    /\ \E key \in AlphabetKeys :
        LET letters == ALPHABETS_get(key)
        IN \E draws \in [1..empties_of(grid)
                             -> 1..Len(letters_random(letters))] :
            grid' = fill_random(grid, letters_random(letters), draws)
    /\ pc' = "done"
    /\ UNCHANGED <<words, n, diagonals, backwards, tajenka, allowed,
                   words_pool, wi, trial, placed, placements, probe>>

Next ==
    \/ GreedyStart
    \/ SkipWord
    \/ TrialAccept
    \/ TrialCollide
    \/ TrialReserved
    \/ GiveUp
    \/ GreedyReturn
    \/ FillTajenka
    \/ FillRandom

Spec == Init /\ [][Next]_vars

\* ---- can_place called directly, on any grid and with any arguments ----
CellValues == {None, "A", "B"}
InitCanPlace ==
    /\ pc = "can_place"
    /\ words = << >>
    /\ \E k \in 1..MaxN :
        /\ n = k
        /\ grid \in [0..(k - 1) -> [0..(k - 1) -> CellValues]]
        /\ \E x \in (-1)..k, y \in (-1)..k, d \in 1..Len(DIRECTIONS),
              word \in Vocabulary :
            probe = [x |-> x, y |-> y, dx |-> DIRECTIONS[d][1],
                     dy |-> DIRECTIONS[d][2], word |-> word,
                     grid0 |-> grid, ret |-> << >>]
    /\ diagonals = TRUE
    /\ backwards = TRUE
    /\ tajenka = << >>
    /\ allowed = << >>
    /\ words_pool = << >>
    /\ wi = 1
    /\ trial = 0
    /\ placed = << >>
    /\ placements = << >>

\* one call of can_place; the function assigns to nothing but its locals
CallCanPlace ==
    /\ pc = "can_place"
    /\ Len(probe.ret) < 2
    /\ probe' = [probe EXCEPT !.ret =
            Append(@, can_place(grid, probe.x, probe.y, probe.dx, probe.dy,
                                probe.word))]
    /\ UNCHANGED <<pc, words, n, diagonals, backwards, tajenka, allowed,
                   words_pool, wi, trial, grid, placed, placements>>

NextCanPlace == CallCanPlace

SpecCanPlace == InitCanPlace /\ [][NextCanPlace]_vars

\* ---- Properties ----
Cells == (0..(n - 1)) \X (0..(n - 1))      \* <<y, x>>
At(g, c) == g[c[1]][c[2]]
EmptyCells(g) == {c \in Cells : At(g, c) = None}
NumEmpty(g) == Cardinality(EmptyCells(g))
\* the cells a recorded placement covers, in word order
CellOf(p, i) == <<p.y + p.dy * i, p.x + p.dx * i>>
Covered ==
    {c \in Cells : \E j \in 1..Len(placements) :
        \E i \in 0..(Len(placements[j].w) - 1) : c = CellOf(placements[j], i)}

\* C1 as stated: whenever greedy_place has returned from a run with
\* reserved_cells = k > 0, the returned grid has at least k empty cells.
C1_AsStated ==
    (pc = "returned" /\ taj_len > 0) => NumEmpty(grid) >= taj_len

\* C1 (amended): whenever greedy_place has returned from a run with
\* reserved_cells = k > 0, the returned grid has at least k empty cells if
\* k <= N*N, and all its N*N cells are empty if k > N*N.
C1_ReservedCellsKept ==
    (pc = "returned" /\ taj_len > 0) =>
        /\ taj_len <= n * n => NumEmpty(grid) >= taj_len
        /\ taj_len > n * n => NumEmpty(grid) = n * n

\* a reserving run that placed something and left exactly k cells empty
C1_Witness ==
    /\ pc = "returned"
    /\ taj_len > 0
    /\ placed # << >>
    /\ NumEmpty(grid) = taj_len

\* C2: from the start of greedy_place through fill_random or
\* fill_with_tajenka, no step changes the character of a non-empty cell.
C2_NoOverwrite ==
    [][pc # "start" =>
         \A c \in Cells : At(grid, c) # None => At(grid', c) = At(grid, c)]_vars

\* a filled grid in which two accepted placements share a cell
C2_Witness ==
    /\ pc = "done"
    /\ \E j, k \in 1..Len(placements) :
         /\ j < k
         /\ \E a \in 0..(Len(placements[j].w) - 1),
               b \in 0..(Len(placements[k].w) - 1) :
                CellOf(placements[j], a) = CellOf(placements[k], b)

\* C3: every accepted placement reads back from the grid, at every later
\* moment and in the filled grid: cell (x + dx*i, y + dy*i) holds w[i].
C3_RoundTrip ==
    \A j \in 1..Len(placements) :
        LET p == placements[j]
        IN \A i \in 0..(Len(p.w) - 1) : At(grid, CellOf(p, i)) = p.w[i + 1]

\* the filled grid of a run that accepted two placements
C3_Witness ==
    /\ pc = "done"
    /\ Len(placements) >= 2
    /\ \E j \in 1..Len(placements) : Len(placements[j].w) >= 2

\* C4: the allowed directions are never empty and every accepted placement
\* runs along one of them; without diagonals no placement has dx and dy both
\* non-zero, without backwards none is W, N, NW or NE, and with neither only
\* E and S occur.
DirsOf(seq) == {<<seq[i][1], seq[i][2]>> : i \in 1..Len(seq)}
C4_DirectionsAllowed ==
    pc # "start" =>
        /\ allowed # << >>
        /\ \A j \in 1..Len(placements) :
            LET p == placements[j]
            IN /\ <<p.dx, p.dy>> \in DirsOf(allowed)
               /\ ~diagonals => (p.dx = 0 \/ p.dy = 0)
               /\ ~backwards =>
                    <<p.dx, p.dy>> \notin {<<-1, 0>>, <<0, -1>>, <<-1, -1>>, <<1, -1>>}
               /\ (~diagonals /\ ~backwards) =>
                    <<p.dx, p.dy>> \in {<<1, 0>>, <<0, 1>>}

\* a placement made with diagonals and backwards both switched off
C4_Witness ==
    /\ pc = "returned"
    /\ ~diagonals
    /\ ~backwards
    /\ \E j \in 1..Len(placements) : Len(placements[j].w) >= 2

\* C5: can_place returns true exactly when every cell (x + dx*i, y + dy*i),
\* i < len(word), lies inside the grid and is empty or holds word[i]; the
\* grid is the same after the call, and a second call returns the same.
Fits(g, x, y, dx, dy, word) ==
    \A i \in 0..(Len(word) - 1) :
        LET cx == x + dx * i
            cy == y + dy * i
        IN /\ cx \in 0..(n - 1)
           /\ cy \in 0..(n - 1)
           /\ g[cy][cx] \in {None, word[i + 1]}
C5_CanPlaceExact ==
    pc = "can_place" =>
        /\ grid = probe.grid0
        /\ \A j \in 1..Len(probe.ret) :
            probe.ret[j] =
                Fits(probe.grid0, probe.x, probe.y, probe.dx, probe.dy, probe.word)

\* two calls that both accepted a word of two letters crossing a letter
\* already in the grid
C5_Witness ==
    /\ pc = "can_place"
    /\ probe.ret = <<TRUE, TRUE>>
    /\ Len(probe.word) >= 2
    /\ \E i \in 0..(Len(probe.word) - 1) :
        grid[probe.y + probe.dy * i][probe.x + probe.dx * i] = probe.word[i + 1]
    /\ \E c \in Cells : At(grid, c) = None

\* the unaccented A-Z letters of the configured alphabets
RestrictedAZ ==
    {c \in AZSet : \E key \in AlphabetKeys :
        \E i \in 1..Len(ALPHABETS_get(key)) :
            remove_diacritics_char(ALPHABETS_get(key)[i]) = c}

\* row-major rank of a cell among the cells empty in g
Precedes(d, c) == d[1] < c[1] \/ (d[1] = c[1] /\ d[2] < c[2])
Rank(g, c) == Cardinality({d \in EmptyCells(g) : Precedes(d, c)})

\* C6: fill_with_tajenka completes without error; the cell that is i-th in
\* row-major order among the cells empty on entry receives phrase[i] if
\* i < len(phrase) and an unaccented A-Z letter otherwise; only cells empty
\* on entry are written, so each phrase position goes to at most one cell,
\* and positions beyond the number of empty cells go to none.
C6_TajenkaScanOrder ==
    [][(pc = "returned" /\ taj_len # 0) =>
        /\ pc' = "done"
        /\ \A c \in Cells \ EmptyCells(grid) : At(grid', c) = At(grid, c)
        /\ \A c \in EmptyCells(grid) :
            IF Rank(grid, c) < Len(tajenka)
            THEN At(grid', c) = tajenka[Rank(grid, c) + 1]
            ELSE At(grid', c) \in RestrictedAZ
        /\ \A i \in 0..(Len(tajenka) - 1) :
            /\ Cardinality({c \in EmptyCells(grid) : Rank(grid, c) = i}) <= 1
            /\ i >= NumEmpty(grid) =>
                {c \in EmptyCells(grid) : Rank(grid, c) = i} = {}]_vars

\* a grid filled around a placed word: the phrase, then random padding
C6_Witness ==
    /\ pc = "done"
    /\ taj_len # 0
    /\ placements # << >>
    /\ \E c, d \in Cells \ Covered :
        /\ At(grid, c) = tajenka[Len(tajenka)]
        /\ Precedes(c, d)
        /\ At(grid, d) \in RestrictedAZ

\* C7: the filler leaves no cell empty and changes no cell that was
\* non-empty; a cell that fill_random found empty holds an unaccented A-Z
\* letter of the alphabet.
C7_FillerFrame ==
    [][pc = "returned" =>
        \A c \in Cells :
            /\ At(grid', c) # None
            /\ At(grid, c) # None => At(grid', c) = At(grid, c)
            /\ (taj_len = 0 /\ At(grid, c) = None) =>
                    At(grid', c) \in RestrictedAZ]_vars

\* fill_random has filled the cells that a placed word left empty
C7_Witness ==
    /\ pc = "done"
    /\ taj_len = 0
    /\ placements # << >>
    /\ Cells \ Covered # {}

\* C8: a word longer than the side is never tried and never placed, and the
\* loop just passes over it; when every word is longer than the side,
\* greedy_place returns no placed word and an all-empty grid, which
\* fill_random then fills with letters only.
AllTooLong == \A i \in 1..Len(words) : Len(words[i]) > n
C8_LongWordsSkipped ==
    pc \in {"place", "returned", "done"} =>
        /\ \A j \in 1..Len(placed) : Len(placed[j]) <= n
        /\ (InLoop /\ Len(w_cur) > n) =>
            /\ trial = 0
            /\ ENABLED SkipWord
            /\ ~ENABLED (TrialAccept \/ TrialCollide \/ TrialReserved \/ GiveUp)
        /\ (pc = "returned" /\ AllTooLong) =>
            /\ placed = << >>
            /\ NumEmpty(grid) = n * n
        /\ (pc = "done" /\ AllTooLong /\ taj_len = 0) =>
            /\ placed = << >>
            /\ \A c \in Cells : At(grid, c) \in RestrictedAZ

\* a run over two words, both too long, filled by fill_random
C8_Witness ==
    /\ pc = "done"
    /\ Len(words) >= 2
    /\ AllTooLong
    /\ taj_len = 0

\* C9: greedy_place terminates, and a word never gets more than 1000
\* trials: the loop is never stuck and every step of it lowers the number of
\* steps that can remain (1001 per word still to come, less the trials spent
\* on the current one); each rejected trial, by collision or by reservation,
\* is counted; a word is left only by being skipped, by an accepted trial or
\* after exactly 1000 rejected ones; an accepted trial ends the word at once.
StepsLeft(i, t) == (Len(words_pool) + 1 - i) * 1001 + (1000 - t)
LoopCanStep ==
    ENABLED (SkipWord \/ TrialAccept \/ TrialCollide \/ TrialReserved
                \/ GiveUp \/ GreedyReturn)
C9_BoundedTrials ==
    /\ [](trial <= 1000)
    /\ [](pc = "place" => LoopCanStep)
    /\ [][pc = "place" =>
            /\ pc' = "returned" \/
                 (pc' = "place" /\ StepsLeft(wi', trial') < StepsLeft(wi, trial)
                                /\ StepsLeft(wi', trial') >= 0)
            /\ (wi' = wi /\ pc' = "place") =>
                (trial' = trial + 1 /\ placed' = placed /\ grid' = grid)
            /\ (wi' # wi) =>
                /\ wi' = wi + 1
                /\ trial' = 0
                /\ \/ Len(w_cur) > n /\ placed' = placed
                   \/ placed' = Append(placed, w_cur)
                   \/ trial = 1000 /\ placed' = placed /\ grid' = grid]_vars

\* greedy_place has returned after placing one word and giving up another
C9_Witness ==
    /\ pc = "returned"
    /\ \A i \in 1..Len(words) : Len(words[i]) <= n
    /\ placed # << >>
    /\ Len(placed) < Len(words_pool)

\* C10: with more reserved cells than the grid has cells, or with an empty
\* word list, greedy_place never gets stuck, places no word and returns a
\* grid whose cells are all empty.
C10_NothingPlaced ==
    (pc \in {"place", "returned"} /\ (taj_len > n * n \/ words = << >>)) =>
        /\ placed = << >>
        /\ NumEmpty(grid) = n * n
        /\ pc = "place" => LoopCanStep

\* greedy_place has returned from a run that reserved more than N*N cells
\* and had a word that fits the grid
C10_Witness ==
    /\ pc = "returned"
    /\ taj_len > n * n
    /\ \E i \in 1..Len(words) : Len(words[i]) <= n

\* C11: placed lists exactly the words written into the grid, in the order
\* written; it is a subsequence of the words already passed in words_pool,
\* which is a rearrangement of the input list; no word is placed more often
\* than it occurs in the input; a word whose 1000 trials are exhausted is not
\* added; the caller's list stays as it was.
Count(seq, w) == Cardinality({i \in 1..Len(seq) : seq[i] = w})
ReadsBack(g, w) ==
    \E d \in 1..Len(DIRECTIONS), x \in 0..(n - 1), y \in 0..(n - 1) :
        \A i \in 0..(Len(w) - 1) :
            LET cx == x + DIRECTIONS[d][1] * i
                cy == y + DIRECTIONS[d][2] * i
            IN /\ cx \in 0..(n - 1)
               /\ cy \in 0..(n - 1)
               /\ g[cy][cx] = w[i + 1]
C11_PlacedList ==
    /\ [](pc \in {"place", "returned", "done"} =>
            /\ Len(words_pool) = Len(words)
            /\ \A w \in Vocabulary :
                /\ Count(words_pool, w) = Count(words, w)
                /\ Count(placed, w) <= Count(words, w)
            /\ \E f \in [1..Len(placed) -> 1..(wi - 1)] :
                /\ \A i, j \in 1..Len(placed) : i < j => f[i] < f[j]
                /\ \A j \in 1..Len(placed) : words_pool[f[j]] = placed[j]
            /\ \A j \in 1..Len(placed) : ReadsBack(grid, placed[j]))
    /\ [][pc # "start" =>
            /\ words' = words
            /\ pc # "place" => placed' = placed
            /\ pc = "place" =>
                /\ grid' # grid => placed' = Append(placed, w_cur)
                /\ placed' # placed =>
                    (placed' = Append(placed, w_cur) /\ ReadsBack(grid', w_cur))
                /\ trial = 1000 => placed' = placed]_vars

\* both words of a list were placed, in an attempt order that is not the
\* order of the input list
C11_Witness ==
    /\ pc = "returned"
    /\ Len(words) = 2
    /\ words_pool # words
    /\ placed = words_pool

\* C12: for every word of length 1..N and every direction, the origin
\* range of a trial is non-empty on both axes and every origin in it keeps
\* the whole word inside the grid; so a trial that can_place rejects always
\* has a cell holding a letter different from the word's.
InGrid(x, y, dx, dy, w) ==
    \A i \in 0..(Len(w) - 1) :
        /\ x + dx * i \in 0..(n - 1)
        /\ y + dy * i \in 0..(n - 1)
Conflict(g, x, y, dx, dy, w) ==
    \E i \in 0..(Len(w) - 1) :
        /\ g[y + dy * i][x + dx * i] # None
        /\ g[y + dy * i][x + dx * i] # w[i + 1]
C12_OriginsInBounds ==
    pc = "place" =>
        /\ \A w \in Vocabulary : (1 <= Len(w) /\ Len(w) <= n) =>
            \A d \in 1..Len(DIRECTIONS) :
                LET dx == DIRECTIONS[d][1]
                    dy == DIRECTIONS[d][2]
                IN /\ min_x_of(n, dx, w) <= max_x_of(n, dx, w)
                   /\ min_y_of(n, dy, w) <= max_y_of(n, dy, w)
                   /\ \A x \in min_x_of(n, dx, w)..max_x_of(n, dx, w),
                         y \in min_y_of(n, dy, w)..max_y_of(n, dy, w) :
                        InGrid(x, y, dx, dy, w)
        /\ CanTry =>
            \A d \in 1..Len(allowed) :
                LET dx == allowed[d][1]
                    dy == allowed[d][2]
                IN \A x \in min_x_of(n, dx, w_cur)..max_x_of(n, dx, w_cur),
                      y \in min_y_of(n, dy, w_cur)..max_y_of(n, dy, w_cur) :
                        ~can_place(grid, x, y, dx, dy, w_cur) =>
                            Conflict(grid, x, y, dx, dy, w_cur)

\* a run without reservation in which a trial of a two-letter word has been
\* rejected by can_place
C12_Witness ==
    /\ pc = "place"
    /\ CanTry
    /\ taj_len = 0
    /\ trial > 0
    /\ Len(w_cur) >= 2

\* C13: without reservation, the first word of the attempt order that is not
\* longer than the side meets an empty grid, no trial of it can be rejected,
\* and it is placed on its first trial; so greedy_place returns an empty
\* placed list exactly when no input word has length <= N.
FirstFitting ==
    CHOOSE i \in 1..Len(words_pool) :
        /\ Len(words_pool[i]) <= n
        /\ \A j \in 1..(i - 1) : Len(words_pool[j]) > n
SomeFits == \E i \in 1..Len(words) : Len(words[i]) <= n
C13_FirstWordPlaced ==
    (taj_len = 0 /\ pc \in {"place", "returned"}) =>
        /\ (InLoop /\ placed = << >> /\ Len(w_cur) <= n) =>
            /\ trial = 0
            /\ NumEmpty(grid) = n * n
            /\ ENABLED TrialAccept
            /\ ~ENABLED (TrialCollide \/ TrialReserved \/ GiveUp \/ SkipWord)
        /\ (placed # << >>) =>
            /\ SomeFits
            /\ placed[1] = words_pool[FirstFitting]
            /\ wi > FirstFitting
        /\ pc = "returned" => (placed = << >> <=> ~SomeFits)

\* greedy_place has returned a non-empty list from a run without
\* reservation whose first attempted word was too long
C13_Witness ==
    /\ pc = "returned"
    /\ taj_len = 0
    /\ Len(words_pool) >= 2
    /\ Len(words_pool[1]) > n
    /\ placed # << >>

====
